---- MODULE Spec2Model ----
(***************************************************************************)
(* terraform-provider-zendesk: the API Client (internal/provider/client.go)*)
(* the two resource adapters (OAuthClientResource, OAuthTokenResource) and *)
(* the provider's Configure, as a state machine.                           *)
(*                                                                         *)
(* A Go string is a sequence of text chunks (the empty string is <<>>); an *)
(* id string is a sequence of one-character chunks, so that                *)
(* strconv.ParseInt / strconv.FormatInt are computed, not assumed.  An     *)
(* HTTP body is a sequence of tokens: [raw |-> text] for text that is not  *)
(* JSON, [k |-> key, num |-> n] / [k |-> key, str |-> s] / [k |-> key,     *)
(* list |-> l] for the members of the JSON object inside the envelope.     *)
(***************************************************************************)
EXTENDS Integers, Sequences, FiniteSets, TLC

\* Bounds of the model.
MaxId == 2          \* the remote system assigns ids 1..MaxId

\* net/http status codes the code compares against.
StatusOK == 200
StatusCreated == 201
StatusNoContent == 204
StatusNotFound == 404
\* Statuses no operation expects: 202 Accepted, 500 Internal Server Error.
UnexpectedStatuses == {202, 500}

\* The statuses the remote system answers with.
Statuses ==
    {StatusOK, StatusCreated, StatusNoContent, StatusNotFound} \cup UnexpectedStatuses

Ids == 1..MaxId

(***************************************************************************)
(* strconv                                                                 *)
(***************************************************************************)
DigitChars == <<"0", "1", "2", "3", "4", "5", "6", "7", "8", "9">>

IsDigit(c) == \E i \in 1..10 : DigitChars[i] = c

DigitVal(c) == (CHOOSE i \in 1..10 : DigitChars[i] = c) - 1

RECURSIVE DigitsVal(_)
DigitsVal(s) ==
    IF Len(s) = 0 THEN 0
    ELSE DigitsVal(SubSeq(s, 1, Len(s) - 1)) * 10 + DigitVal(s[Len(s)])

RECURSIVE StripZeros(_)
StripZeros(s) ==
    IF Len(s) > 1 /\ s[1] = "0" THEN StripZeros(Tail(s)) ELSE s

\* The decimal digits of 2^63 - 1 and of 2^63 (the magnitudes int64 holds).
MaxInt64Digits ==
    <<"9","2","2","3","3","7","2","0","3","6","8","5","4","7","7","5","8","0","7">>
MinInt64Digits ==
    <<"9","2","2","3","3","7","2","0","3","6","8","5","4","7","7","5","8","0","8">>

\* a <= b for two digit strings of the same length
RECURSIVE DigitsLeq(_, _)
DigitsLeq(a, b) ==
    IF Len(a) = 0 THEN TRUE
    ELSE IF DigitVal(a[1]) < DigitVal(b[1]) THEN TRUE
    ELSE IF DigitVal(a[1]) > DigitVal(b[1]) THEN FALSE
    ELSE DigitsLeq(Tail(a), Tail(b))

InInt64Range(digits, neg) ==
    LET d == StripZeros(digits)
        lim == IF neg THEN MinInt64Digits ELSE MaxInt64Digits
    IN  \/ Len(d) < Len(lim)
        \/ Len(d) = Len(lim) /\ DigitsLeq(d, lim)

\* strconv.ParseInt(s, 10, 64): an optional sign, then one or more decimal
\* digits, the value within int64.  [ok, val]; val is 0 when ok is FALSE.
ParseInt(s) ==
    LET signed == Len(s) > 0 /\ s[1] \in {"+", "-"}
        neg == Len(s) > 0 /\ s[1] = "-"
        digits == IF signed THEN Tail(s) ELSE s
    IN  IF Len(digits) = 0 \/ \E i \in 1..Len(digits) : ~IsDigit(digits[i])
        THEN [ok |-> FALSE, val |-> 0]
        ELSE IF ~InInt64Range(digits, neg)
        THEN [ok |-> FALSE, val |-> 0]
        ELSE [ok |-> TRUE,
              val |-> IF neg THEN 0 - DigitsVal(StripZeros(digits))
                      ELSE DigitsVal(StripZeros(digits))]

RECURSIVE NatDigits(_)
NatDigits(n) ==
    IF n < 10 THEN <<DigitChars[n + 1]>>
    ELSE NatDigits(n \div 10) \o <<DigitChars[(n % 10) + 1]>>

\* strconv.FormatInt(n, 10)
FormatInt(n) == IF n < 0 THEN <<"-">> \o NatDigits(0 - n) ELSE NatDigits(n)

(***************************************************************************)
(* types.String of the plugin framework: null, unknown or a known value.   *)
(***************************************************************************)
StringValue(s) == [null |-> FALSE, unknown |-> FALSE, v |-> s]
StringNull == [null |-> TRUE, unknown |-> FALSE, v |-> <<>>]
StringUnknown == [null |-> FALSE, unknown |-> TRUE, v |-> <<>>]
ValueString(t) == t.v
IsNull(t) == t.null
IsUnknown(t) == t.unknown

(***************************************************************************)
(* Go values: a nil pointer, a nil error, an error with its message.       *)
(***************************************************************************)
Nil == [nil |-> TRUE]
IsNil(p) == p.nil
Error(msg) == [nil |-> FALSE, msg |-> msg]
Text(s) == <<[raw |-> s]>>

(***************************************************************************)
(* encoding/json on the two envelopes.                                     *)
(***************************************************************************)
IsJSON(body) == Len(body) > 0 /\ \A i \in 1..Len(body) : "k" \in DOMAIN body[i]

HasKey(body, key) == \E i \in 1..Len(body) : body[i].k = key

Member(body, key) == body[CHOOSE i \in 1..Len(body) : body[i].k = key]

\* json.Marshal of oauthClientWrapper: id, name, identifier, kind always,
\* description only when it is not empty (omitempty).
MarshalOAuthClient(c) ==
    <<[k |-> "id", num |-> c.ID], [k |-> "name", str |-> c.Name],
      [k |-> "identifier", str |-> c.Identifier], [k |-> "kind", str |-> c.Kind]>>
    \o (IF c.Description = <<>> THEN <<>>
        ELSE <<[k |-> "description", str |-> c.Description]>>)

\* json.Decoder.Decode into oauthClientWrapper: a member the body lacks
\* keeps the zero value; a body that is not JSON (or is empty) is an error.
DecodeOAuthClient(body) ==
    IF ~IsJSON(body) THEN [err |-> Error(Text("invalid character")), rec |-> Nil]
    ELSE [err |-> Nil,
          rec |-> [nil |-> FALSE,
                   ID |-> IF HasKey(body, "id") THEN Member(body, "id").num ELSE 0,
                   Name |-> IF HasKey(body, "name") THEN Member(body, "name").str ELSE <<>>,
                   Identifier |-> IF HasKey(body, "identifier")
                                  THEN Member(body, "identifier").str ELSE <<>>,
                   Kind |-> IF HasKey(body, "kind") THEN Member(body, "kind").str ELSE <<>>,
                   Description |-> IF HasKey(body, "description")
                                   THEN Member(body, "description").str ELSE <<>>]]

\* json.Marshal of oauthTokenWrapper: full_token and expires_at are omitempty.
MarshalOAuthToken(t) ==
    <<[k |-> "id", num |-> t.ID], [k |-> "client_id", num |-> t.ClientID],
      [k |-> "scopes", list |-> t.Scopes]>>
    \o (IF t.FullToken = <<>> THEN <<>>
        ELSE <<[k |-> "full_token", str |-> t.FullToken]>>)
    \o (IF t.ExpiresAt = <<>> THEN <<>>
        ELSE <<[k |-> "expires_at", str |-> t.ExpiresAt]>>)

DecodeOAuthToken(body) ==
    IF ~IsJSON(body) THEN [err |-> Error(Text("invalid character")), rec |-> Nil]
    ELSE [err |-> Nil,
          rec |-> [nil |-> FALSE,
                   ID |-> IF HasKey(body, "id") THEN Member(body, "id").num ELSE 0,
                   ClientID |-> IF HasKey(body, "client_id")
                                THEN Member(body, "client_id").num ELSE 0,
                   Scopes |-> IF HasKey(body, "scopes")
                              THEN Member(body, "scopes").list ELSE <<>>,
                   FullToken |-> IF HasKey(body, "full_token")
                                 THEN Member(body, "full_token").str ELSE <<>>,
                   ExpiresAt |-> IF HasKey(body, "expires_at")
                                 THEN Member(body, "expires_at").str ELSE <<>>]]

(***************************************************************************)
(* The API Client (client.go).                                             *)
(***************************************************************************)
NewClient(subdomain, email, apiToken) ==
    [nil |-> FALSE, type |-> "*Client",
     subdomain |-> subdomain, email |-> email, apiToken |-> apiToken]

\* The error of http.NewRequest for a URL with this host: url.Parse takes a
\* space in the host name for an invalid character.  Nil when the URL parses.
URLError(host) ==
    IF \E i \in 1..Len(host) : host[i] = " "
    THEN Error(Text("parse: invalid character \" \" in host name"))
    ELSE Nil

\* The request each operation builds: method, URL (host; path: the collection
\* followed by the id in decimal, "%d"), basic auth, Content-Type and body;
\* err is the error http.NewRequest returned instead of it.
Request(c, method, path, body) ==
    [err |-> URLError(c.subdomain \o <<".zendesk.com">>),
     method |-> method,
     host |-> c.subdomain \o <<".zendesk.com">>,
     path |-> path,
     user |-> c.email \o <<"/token">>,
     pass |-> c.apiToken,
     contentType |-> IF method = "POST" THEN "application/json" ELSE "",
     body |-> body]

CreateOAuthClientRequest(c, name, identifier, kind, description) ==
    Request(c, "POST", <<"clients">>,
            MarshalOAuthClient([ID |-> 0, Name |-> name, Identifier |-> identifier,
                                Kind |-> kind, Description |-> description]))

ReadOAuthClientRequest(c, id) ==
    Request(c, "GET", <<"clients">> \o FormatInt(id), <<>>)

DeleteOAuthClientRequest(c, id) ==
    Request(c, "DELETE", <<"clients">> \o FormatInt(id), <<>>)

CreateOAuthTokenRequest(c, clientID, scopes, expiresAt) ==
    Request(c, "POST", <<"tokens">>,
            MarshalOAuthToken([ID |-> 0, ClientID |-> clientID, Scopes |-> scopes,
                               FullToken |-> <<>>, ExpiresAt |-> expiresAt]))

ReadOAuthTokenRequest(c, id) ==
    Request(c, "GET", <<"tokens">> \o FormatInt(id), <<>>)

DeleteOAuthTokenRequest(c, id) ==
    Request(c, "DELETE", <<"tokens">> \o FormatInt(id), <<>>)

\* What each operation returns for the exchange x = [err, status, body] that
\* c.http.Do gave: [rec, err], a nil rec with a nil err being not-found.
CreateOAuthClient(x) ==
    IF ~IsNil(x.err) THEN [rec |-> Nil, err |-> x.err]
    ELSE IF x.status # StatusCreated
    THEN [rec |-> Nil,
          err |-> Error(Text("failed to create OAuth client: ") \o x.body)]
    ELSE DecodeOAuthClient(x.body)

\* ReadOAuthClient without its StatusNotFound branch.
ReadOAuthClientNoNotFound(x) ==
    IF ~IsNil(x.err) THEN [rec |-> Nil, err |-> x.err]
    ELSE IF x.status # StatusOK
    THEN [rec |-> Nil,
          err |-> Error(Text("failed to read OAuth client: ") \o x.body)]
    ELSE DecodeOAuthClient(x.body)

ReadOAuthClient(x) ==
    IF ~IsNil(x.err) THEN [rec |-> Nil, err |-> x.err]
    ELSE IF x.status = StatusNotFound THEN [rec |-> Nil, err |-> Nil]
    ELSE IF x.status # StatusOK
    THEN [rec |-> Nil,
          err |-> Error(Text("failed to read OAuth client: ") \o x.body)]
    ELSE DecodeOAuthClient(x.body)

\* DeleteOAuthClient taking every status below 300 for success.
DeleteOAuthClientAny2xx(x) ==
    IF ~IsNil(x.err) THEN [rec |-> Nil, err |-> x.err]
    ELSE IF x.status >= 300
    THEN [rec |-> Nil,
          err |-> Error(Text("failed to delete OAuth client: ") \o x.body)]
    ELSE [rec |-> Nil, err |-> Nil]

DeleteOAuthClient(x) ==
    IF ~IsNil(x.err) THEN [rec |-> Nil, err |-> x.err]
    ELSE IF x.status # StatusNoContent
    THEN [rec |-> Nil,
          err |-> Error(Text("failed to delete OAuth client: ") \o x.body)]
    ELSE [rec |-> Nil, err |-> Nil]

CreateOAuthToken(x) ==
    IF ~IsNil(x.err) THEN [rec |-> Nil, err |-> x.err]
    ELSE IF x.status # StatusCreated
    THEN [rec |-> Nil,
          err |-> Error(Text("failed to create OAuth token: ") \o x.body)]
    ELSE DecodeOAuthToken(x.body)

\* ReadOAuthToken reporting an unexpected status without the body.
ReadOAuthTokenDropsBody(x) ==
    IF ~IsNil(x.err) THEN [rec |-> Nil, err |-> x.err]
    ELSE IF x.status = StatusNotFound THEN [rec |-> Nil, err |-> Nil]
    ELSE IF x.status # StatusOK
    THEN [rec |-> Nil, err |-> Error(Text("failed to read OAuth token"))]
    ELSE DecodeOAuthToken(x.body)

ReadOAuthToken(x) ==
    IF ~IsNil(x.err) THEN [rec |-> Nil, err |-> x.err]
    ELSE IF x.status = StatusNotFound THEN [rec |-> Nil, err |-> Nil]
    ELSE IF x.status # StatusOK
    THEN [rec |-> Nil,
          err |-> Error(Text("failed to read OAuth token: ") \o x.body)]
    ELSE DecodeOAuthToken(x.body)

DeleteOAuthToken(x) ==
    IF ~IsNil(x.err) THEN [rec |-> Nil, err |-> x.err]
    ELSE IF x.status # StatusNoContent
    THEN [rec |-> Nil,
          err |-> Error(Text("failed to delete OAuth token: ") \o x.body)]
    ELSE [rec |-> Nil, err |-> Nil]

(***************************************************************************)
(* The remote system, as the wire contract describes it.  It holds the     *)
(* records of one collection: remote[id] is a record or Gone.  For a       *)
(* request it either answers for the resource (201 and the stored record,  *)
(* 200 and the record, 204, 404), or fails: no response at all (a          *)
(* transport error) or an error status with an error body; a failed        *)
(* request changes nothing.                                                *)
(***************************************************************************)
Gone == [gone |-> TRUE]

Lookup(store, id) == IF id \in Ids THEN store[id] ELSE Gone

ErrorBodies ==
    {Text("Forbidden"), <<[raw |-> "{\"error\":"], [raw |-> "\"RecordInvalid\"}"]>>}

NotJSONBodies == {<<>>, Text("<html>")}

TransportError == Error(Text("dial tcp: connection refused"))

Response(status, body) == [err |-> Nil, status |-> status, body |-> body]

NoResponse == [err |-> TransportError, status |-> 0, body |-> <<>>]

\* The values the remote system may give a field it controls.
ServerDescription == <<"set by server">>
ServerExpiresAt == <<"2030-01-01T00:00:00Z">>
ServerFullToken == <<"secret">>

Faults(store, success) ==
    {[x |-> NoResponse, store |-> store]}
    \cup {[x |-> Response(st, b), store |-> store] :
            st \in Statuses \ {success, StatusNotFound}, b \in ErrorBodies}

\* POST: a free id is assigned and the record stored; the answer is 201 with
\* the record (or with a body that does not decode).
ServePost(store, req) ==
    LET isClient == req.path[1] = "clients"
        in == IF isClient THEN DecodeOAuthClient(req.body).rec
              ELSE DecodeOAuthToken(req.body).rec
        made(id) ==
            IF isClient
            THEN {[ID |-> id, Name |-> in.Name, Identifier |-> in.Identifier,
                   Kind |-> in.Kind, Description |-> d] :
                    d \in {in.Description, ServerDescription}}
            ELSE {[ID |-> id, ClientID |-> in.ClientID, Scopes |-> in.Scopes,
                   FullToken |-> ServerFullToken, ExpiresAt |-> e] :
                    e \in {in.ExpiresAt, ServerExpiresAt}}
        marshal(r) == IF isClient THEN MarshalOAuthClient(r) ELSE MarshalOAuthToken(r)
    IN  Faults(store, StatusCreated)
        \cup {[x |-> Response(StatusNotFound, b), store |-> store] : b \in ErrorBodies}
        \cup UNION {UNION {
               {[x |-> Response(StatusCreated, b),
                 store |-> [store EXCEPT ![id] = r]] :
                    b \in {marshal(r)} \cup NotJSONBodies} :
               r \in made(id)} :
             id \in {i \in Ids : store[i] = Gone}}

\* GET: 200 with the record, or 404.  A token's record may or may not carry
\* full_token on a read.
ServeGet(store, req) ==
    LET isClient == req.path[1] = "clients"
        id == ParseInt(Tail(req.path)).val
        r == Lookup(store, id)
        bodies == IF isClient THEN {MarshalOAuthClient(r)}
                  ELSE {MarshalOAuthToken(r),
                        MarshalOAuthToken([r EXCEPT !.FullToken = <<>>])}
    IN  Faults(store, StatusOK)
        \cup (IF r = Gone
              THEN {[x |-> Response(StatusNotFound, b), store |-> store] :
                        b \in ErrorBodies}
              ELSE {[x |-> Response(StatusOK, b), store |-> store] :
                        b \in bodies \cup NotJSONBodies})

\* DELETE: 204 and the record is gone, or 404.
ServeDelete(store, req) ==
    LET id == ParseInt(Tail(req.path)).val
        r == Lookup(store, id)
    IN  Faults(store, StatusNoContent)
        \cup (IF r = Gone
              THEN {[x |-> Response(StatusNotFound, b), store |-> store] :
                        b \in ErrorBodies}
              ELSE {[x |-> Response(StatusNoContent, <<>>),
                     store |-> [store EXCEPT ![id] = Gone]]})

\* c.http.Do(req): every exchange the remote system may give, with the
\* store it leaves.
Do(store, req) ==
    CASE req.method = "POST" -> ServePost(store, req)
      [] req.method = "GET" -> ServeGet(store, req)
      [] req.method = "DELETE" -> ServeDelete(store, req)

\* RoundTrip sending the request once more when no response came.
RoundTripRetrying(store, req) ==
    IF ~IsNil(req.err)
    THEN {[x |-> [err |-> req.err, status |-> 0, body |-> <<>>], store |-> store,
           sent |-> 0]}
    ELSE UNION {IF ~IsNil(d.x.err)
                THEN {[x |-> e.x, store |-> e.store, sent |-> 2] :
                        e \in Do(d.store, req)}
                ELSE {[x |-> d.x, store |-> d.store, sent |-> 1]} :
                d \in Do(store, req)}

\* From http.NewRequest to the return of c.http.Do: when the request could
\* not be built its error is the outcome and nothing is sent; otherwise the
\* request is sent, once, and the outcome is the exchange, whatever it is.
\* [x, store, sent]: sent counts the calls of c.http.Do.
RoundTrip(store, req) ==
    IF ~IsNil(req.err)
    THEN {[x |-> [err |-> req.err, status |-> 0, body |-> <<>>], store |-> store,
           sent |-> 0]}
    ELSE {[x |-> d.x, store |-> d.store, sent |-> 1] : d \in Do(store, req)}

(***************************************************************************)
(* State.                                                                  *)
(***************************************************************************)
VARIABLES
    resource,   \* the TypeName of the resource instance followed
    rclient,    \* r.client of its adapter: Nil or the *Client
    remote,     \* the remote system's records of that kind, by id
    tracked,    \* the framework's state of the resource: Absent or its model
    call,       \* the last call made: what went in, the exchange, what came out
                \* (again: a Read right after a Read that returned no error;
                \* id: the id a Read or Delete asked the remote system about)
    crashed,    \* the process panicked
    deleted,    \* ids a Delete removed and no create has assigned since
    provider    \* the last ZendeskProvider.Configure: inputs and response

vars == <<resource, rclient, remote, tracked, call, crashed, deleted, provider>>

OAuthClientTypeName == "zendesk_oauth_client"
OAuthTokenTypeName == "zendesk_oauth_token"

Absent == [absent |-> TRUE]

\* diag.Diagnostics
AddError(diags, summary, detail) ==
    Append(diags, [severity |-> "error", summary |-> summary, detail |-> detail])

HasError(diags) == \E i \in 1..Len(diags) : diags[i].severity = "error"

\* fmt.Sprintf(format + "%v", err)
Sprintf(format, err) == Text(format) \o err.msg

NoExchange == [err |-> Nil, status |-> 0, body |-> <<>>]
NoResult == [rec |-> Nil, err |-> Nil]
NoCall ==
    [op |-> "none", plan |-> Nil, sent |-> 0, x |-> NoExchange, res |-> NoResult,
     diags |-> <<>>, panic |-> FALSE, again |-> FALSE, id |-> 0]

\* A call that returned before any request was sent.
Local(op, plan, diags) ==
    [op |-> op, plan |-> plan, sent |-> 0, x |-> NoExchange, res |-> NoResult,
     diags |-> diags, panic |-> FALSE, again |-> FALSE, id |-> 0]

\* A call that went through the API Client: the round trip d it made there
\* and what the API Client returned.
Remote(op, plan, d, res, diags) ==
    [op |-> op, plan |-> plan, sent |-> d.sent, x |-> d.x, res |-> res,
     diags |-> diags, panic |-> FALSE, again |-> FALSE, id |-> 0]

\* A method of a nil *Client reads c.subdomain first: a nil pointer
\* dereference, before any request is built.
Panic(op, plan) ==
    /\ crashed' = TRUE
    /\ call' = [op |-> op, plan |-> plan, sent |-> 0, x |-> NoExchange,
                res |-> NoResult, diags |-> <<>>, panic |-> TRUE, again |-> FALSE, id |-> 0]
    /\ UNCHANGED <<resource, rclient, remote, tracked, deleted, provider>>

\* Whether the call before this one was a Read that returned no error
\* (recorded in a Read's call as "again").
ReadAgain == call.op = "Read" /\ ~call.panic /\ ~HasError(call.diags)

\* The ids the remote system assigned in a step from store to next.
Assigned(store, next) == {i \in Ids : store[i] = Gone /\ next[i] # Gone}

(***************************************************************************)
(* Inputs.                                                                 *)
(***************************************************************************)
TheClient == NewClient(<<"acme">>, <<"admin@example.com">>, <<"api-token">>)

\* A client whose subdomain has a space in it.
SpacedClient ==
    NewClient(<<"my", " ", "company">>, <<"admin@example.com">>, <<"api-token">>)

\* What the framework may hand to a resource's Configure.
ProviderDatas == {Nil, [nil |-> FALSE, type |-> "string"], TheClient, SpacedClient}

OAuthClientPlans ==
    {[absent |-> FALSE, ID |-> StringUnknown,
      Name |-> StringValue(<<"Basic Client">>),
      Identifier |-> StringValue(<<"basic_client">>),
      Kind |-> StringValue(<<"public">>),
      Description |-> d] :
        d \in {StringNull, StringValue(<<"my application">>)}}

ListValue(elems) == [null |-> FALSE, elems |-> elems]
ListNull == [null |-> TRUE, elems |-> <<>>]

OAuthTokenPlans ==
    {[absent |-> FALSE, ID |-> StringUnknown,
      ClientID |-> StringValue(c),
      Scopes |-> ListValue(sc),
      FullToken |-> StringUnknown,
      ExpiresAt |-> e] :
        c \in {<<"1">>, <<"x">>},
        sc \in {<<StringValue(<<"read">>), StringValue(<<"write">>)>>},
        e \in {StringNull, StringValue(<<"2024-12-31T23:59:59Z">>)}}

\* The ids an import may be given: every id the remote system assigns, one
\* it never assigns, one with a sign, one that is not a number, and one of
\* 19 digits that is past the largest int64.
ImportIDs ==
    {FormatInt(i) : i \in Ids}
    \cup {<<"9", "9", "9", "9", "9", "9">>, <<"+", "1">>, <<"x">>,
          [i \in 1..Len(MaxInt64Digits) |-> "9"]}

(***************************************************************************)
(* OAuthClientResource.                                                    *)
(***************************************************************************)
\* Configure: nil ProviderData changes nothing; a value that is not a
\* *Client is a diagnostic; a *Client becomes r.client.
ResourceConfigure(client, providerData) ==
    IF IsNil(providerData) THEN [client |-> client, diags |-> <<>>]
    ELSE IF providerData.type # "*Client"
    THEN [client |-> client,
          diags |-> AddError(<<>>, "Unexpected Resource Configure Type",
                             Text("Expected *Client, got: ") \o Text(providerData.type))]
    ELSE [client |-> providerData, diags |-> <<>>]

\* Create, from the API Client's answer on: [state, diags].
\* OAuthClientCreate writing the id and leaving the planned description.
OAuthClientCreateKeepsPlan(plan, res) ==
    IF ~IsNil(res.err)
    THEN [state |-> Absent,
          diags |-> AddError(<<>>, "Error Creating OAuth Client",
                             Sprintf("Could not create OAuth client: ", res.err))]
    ELSE [state |-> [plan EXCEPT !.ID = StringValue(FormatInt(res.rec.ID))],
          diags |-> <<>>]

OAuthClientCreate(plan, res) ==
    IF ~IsNil(res.err)
    THEN [state |-> Absent,
          diags |-> AddError(<<>>, "Error Creating OAuth Client",
                             Sprintf("Could not create OAuth client: ", res.err))]
    ELSE [state |-> [plan EXCEPT !.ID = StringValue(FormatInt(res.rec.ID)),
                                 !.Description = StringValue(res.rec.Description)],
          diags |-> <<>>]

\* Read, from the API Client's answer on.
OAuthClientRead(state, res) ==
    IF ~IsNil(res.err)
    THEN [state |-> state,
          diags |-> AddError(<<>>, "Error Reading OAuth Client",
                             Sprintf("Could not read OAuth client: ", res.err))]
    ELSE IF IsNil(res.rec) THEN [state |-> Absent, diags |-> <<>>]
    ELSE [state |-> [state EXCEPT !.Name = StringValue(res.rec.Name),
                                  !.Identifier = StringValue(res.rec.Identifier),
                                  !.Kind = StringValue(res.rec.Kind),
                                  !.Description = StringValue(res.rec.Description)],
          diags |-> <<>>]

\* OAuthClientDelete with the state removed before the error is looked at.
OAuthClientDeleteRemovesOnError(state, res) ==
    IF ~IsNil(res.err)
    THEN [state |-> Absent,
          diags |-> AddError(<<>>, "Error Deleting OAuth Client",
                             Sprintf("Could not delete OAuth client: ", res.err))]
    ELSE [state |-> Absent, diags |-> <<>>]

\* Delete, from the API Client's answer on.  The method leaves the state
\* alone; the framework removes it when Delete returns no error.
OAuthClientDelete(state, res) ==
    IF ~IsNil(res.err)
    THEN [state |-> state,
          diags |-> AddError(<<>>, "Error Deleting OAuth Client",
                             Sprintf("Could not delete OAuth client: ", res.err))]
    ELSE [state |-> Absent, diags |-> <<>>]

OAuthClientUpdate(state) ==
    [state |-> state, sent |-> 0,
     diags |-> AddError(<<>>, "Update Not Supported",
                        Text("The Zendesk API does not support updating OAuth clients. To change the configuration, you must create a new client."))]

\* OAuthClientParseError adding nothing: the parse error dropped.
OAuthClientParseErrorDropped(err) == <<>>

OAuthClientParseError(err) ==
    AddError(<<>>, "Error Parsing OAuth Client ID",
             Text("Could not parse OAuth client ID: ") \o err)

\* The text of the error strconv.ParseInt returns for s.
ParseErrorText(s) ==
    Text("strconv.ParseInt: parsing ") \o [i \in 1..Len(s) |-> [raw |-> s[i]]]

OAuthClientResourceConfigure ==
    /\ ~crashed
    /\ resource = OAuthClientTypeName
    /\ \E providerData \in ProviderDatas :
         LET out == ResourceConfigure(rclient, providerData)
         IN  /\ rclient' = out.client
             /\ call' = Local("Configure", Nil, out.diags)
    /\ UNCHANGED <<resource, remote, tracked, crashed, deleted, provider>>

OAuthClientResourceCreate ==
    /\ ~crashed
    /\ resource = OAuthClientTypeName
    /\ tracked = Absent
    /\ \E plan \in OAuthClientPlans :
         IF IsNil(rclient) THEN Panic("Create", plan)
         ELSE \E d \in RoundTrip(remote,
                                 CreateOAuthClientRequest(rclient,
                                     ValueString(plan.Name), ValueString(plan.Identifier),
                                     ValueString(plan.Kind), ValueString(plan.Description))) :
                LET res == CreateOAuthClient(d.x)
                    out == OAuthClientCreate(plan, res)
                IN  /\ remote' = d.store
                    /\ tracked' = out.state
                    /\ call' = Remote("Create", plan, d, res, out.diags)
                    /\ deleted' = deleted \ Assigned(remote, d.store)
                    /\ UNCHANGED <<resource, rclient, crashed, provider>>

OAuthClientResourceRead ==
    /\ ~crashed
    /\ resource = OAuthClientTypeName
    /\ tracked # Absent
    /\ LET id == ParseInt(ValueString(tracked.ID))
       IN  IF ~id.ok
           THEN /\ call' = Local("Read", Nil,
                      OAuthClientParseError(ParseErrorText(ValueString(tracked.ID))))
                /\ UNCHANGED <<resource, rclient, remote, tracked, crashed, deleted,
                               provider>>
           ELSE IF IsNil(rclient) THEN Panic("Read", Nil)
           ELSE \E d \in RoundTrip(remote, ReadOAuthClientRequest(rclient, id.val)) :
                  LET res == ReadOAuthClient(d.x)
                      out == OAuthClientRead(tracked, res)
                  IN  /\ remote' = d.store
                      /\ tracked' = out.state
                      /\ call' = [Remote("Read", Nil, d, res, out.diags)
                                     EXCEPT !.again = ReadAgain, !.id = id.val]
                      /\ UNCHANGED <<resource, rclient, crashed, deleted, provider>>

OAuthClientResourceUpdate ==
    /\ ~crashed
    /\ resource = OAuthClientTypeName
    /\ \E plan \in OAuthClientPlans :
         LET out == OAuthClientUpdate(tracked)
         IN  /\ tracked' = out.state
             /\ call' = [Local("Update", plan, out.diags) EXCEPT !.sent = out.sent]
    /\ UNCHANGED <<resource, rclient, remote, crashed, deleted, provider>>

OAuthClientResourceDelete ==
    /\ ~crashed
    /\ resource = OAuthClientTypeName
    /\ tracked # Absent
    /\ LET id == ParseInt(ValueString(tracked.ID))
       IN  IF ~id.ok
           THEN /\ call' = Local("Delete", Nil,
                      OAuthClientParseError(ParseErrorText(ValueString(tracked.ID))))
                /\ UNCHANGED <<resource, rclient, remote, tracked, crashed, deleted,
                               provider>>
           ELSE IF IsNil(rclient) THEN Panic("Delete", Nil)
           ELSE \E d \in RoundTrip(remote, DeleteOAuthClientRequest(rclient, id.val)) :
                  LET res == DeleteOAuthClient(d.x)
                      out == OAuthClientDelete(tracked, res)
                  IN  /\ remote' = d.store
                      /\ tracked' = out.state
                      /\ call' = [Remote("Delete", Nil, d, res, out.diags)
                                     EXCEPT !.id = id.val]
                      /\ deleted' = IF HasError(out.diags) THEN deleted
                                    ELSE deleted \cup {id.val}
                      /\ UNCHANGED <<resource, rclient, crashed, provider>>

\* resource.ImportStatePassthroughID: the id given is set as the id
\* attribute; every other attribute is null until the Read that follows.
OAuthClientResourceImportState ==
    /\ ~crashed
    /\ resource = OAuthClientTypeName
    /\ tracked = Absent
    /\ \E id \in ImportIDs :
         /\ tracked' = [absent |-> FALSE, ID |-> StringValue(id),
                        Name |-> StringNull, Identifier |-> StringNull,
                        Kind |-> StringNull, Description |-> StringNull]
         /\ call' = Local("ImportState", Nil, <<>>)
    /\ UNCHANGED <<resource, rclient, remote, crashed, deleted, provider>>

(***************************************************************************)
(* OAuthTokenResource.                                                     *)
(***************************************************************************)
\* scopes := the ValueString of every element of plan.Scopes
ScopeStrings(list) == [i \in 1..Len(list.elems) |-> ValueString(list.elems[i])]

\* state.Scopes := a types.String for every scope of the record
ScopeValues(scopes) == ListValue([i \in 1..Len(scopes) |-> StringValue(scopes[i])])

\* OAuthTokenCreate writing the plan as state when the create failed.
OAuthTokenCreateWritesOnError(plan, res) ==
    IF ~IsNil(res.err)
    THEN [state |-> plan,
          diags |-> AddError(<<>>, "Error Creating OAuth Token",
                             Sprintf("Could not create OAuth token: ", res.err))]
    ELSE [state |-> [plan EXCEPT !.ID = StringValue(FormatInt(res.rec.ID)),
                                 !.FullToken = StringValue(res.rec.FullToken),
                                 !.ExpiresAt = StringValue(res.rec.ExpiresAt)],
          diags |-> <<>>]

OAuthTokenCreate(plan, res) ==
    IF ~IsNil(res.err)
    THEN [state |-> Absent,
          diags |-> AddError(<<>>, "Error Creating OAuth Token",
                             Sprintf("Could not create OAuth token: ", res.err))]
    ELSE [state |-> [plan EXCEPT !.ID = StringValue(FormatInt(res.rec.ID)),
                                 !.FullToken = StringValue(res.rec.FullToken),
                                 !.ExpiresAt = StringValue(res.rec.ExpiresAt)],
          diags |-> <<>>]

\* OAuthTokenRead refreshing full_token from the record read as well.
OAuthTokenReadTakesFullToken(state, res) ==
    IF ~IsNil(res.err)
    THEN [state |-> state,
          diags |-> AddError(<<>>, "Error Reading OAuth Token",
                             Sprintf("Could not read OAuth token: ", res.err))]
    ELSE IF IsNil(res.rec) THEN [state |-> Absent, diags |-> <<>>]
    ELSE [state |-> [state EXCEPT
                        !.ClientID = StringValue(FormatInt(res.rec.ClientID)),
                        !.Scopes = ScopeValues(res.rec.Scopes),
                        !.FullToken = StringValue(res.rec.FullToken),
                        !.ExpiresAt = StringValue(res.rec.ExpiresAt)],
          diags |-> <<>>]

\* OAuthTokenRead taking a nil token for an error.
OAuthTokenReadNotFoundIsError(state, res) ==
    IF ~IsNil(res.err) \/ IsNil(res.rec)
    THEN [state |-> state,
          diags |-> AddError(<<>>, "Error Reading OAuth Token",
                             Text("Could not read OAuth token: not found"))]
    ELSE [state |-> [state EXCEPT
                        !.ClientID = StringValue(FormatInt(res.rec.ClientID)),
                        !.Scopes = ScopeValues(res.rec.Scopes),
                        !.ExpiresAt = StringValue(res.rec.ExpiresAt)],
          diags |-> <<>>]

\* OAuthTokenRead refreshing the id from the record read as well.
OAuthTokenReadRewritesID(state, res) ==
    IF ~IsNil(res.err)
    THEN [state |-> state,
          diags |-> AddError(<<>>, "Error Reading OAuth Token",
                             Sprintf("Could not read OAuth token: ", res.err))]
    ELSE IF IsNil(res.rec) THEN [state |-> Absent, diags |-> <<>>]
    ELSE [state |-> [state EXCEPT
                        !.ID = StringValue(FormatInt(res.rec.ID)),
                        !.ClientID = StringValue(FormatInt(res.rec.ClientID)),
                        !.Scopes = ScopeValues(res.rec.Scopes),
                        !.ExpiresAt = StringValue(res.rec.ExpiresAt)],
          diags |-> <<>>]

\* OAuthTokenRead removing the resource whenever no token came back.
OAuthTokenReadRemovesOnError(state, res) ==
    IF ~IsNil(res.err)
    THEN [state |-> Absent,
          diags |-> AddError(<<>>, "Error Reading OAuth Token",
                             Sprintf("Could not read OAuth token: ", res.err))]
    ELSE IF IsNil(res.rec) THEN [state |-> Absent, diags |-> <<>>]
    ELSE [state |-> [state EXCEPT
                        !.ClientID = StringValue(FormatInt(res.rec.ClientID)),
                        !.Scopes = ScopeValues(res.rec.Scopes),
                        !.ExpiresAt = StringValue(res.rec.ExpiresAt)],
          diags |-> <<>>]

OAuthTokenRead(state, res) ==
    IF ~IsNil(res.err)
    THEN [state |-> state,
          diags |-> AddError(<<>>, "Error Reading OAuth Token",
                             Sprintf("Could not read OAuth token: ", res.err))]
    ELSE IF IsNil(res.rec) THEN [state |-> Absent, diags |-> <<>>]
    ELSE [state |-> [state EXCEPT
                        !.ClientID = StringValue(FormatInt(res.rec.ClientID)),
                        !.Scopes = ScopeValues(res.rec.Scopes),
                        !.ExpiresAt = StringValue(res.rec.ExpiresAt)],
          diags |-> <<>>]

OAuthTokenDelete(state, res) ==
    IF ~IsNil(res.err)
    THEN [state |-> state,
          diags |-> AddError(<<>>, "Error Deleting OAuth Token",
                             Sprintf("Could not delete OAuth token: ", res.err))]
    ELSE [state |-> Absent, diags |-> <<>>]

\* OAuthTokenUpdate returning without a diagnostic.
OAuthTokenUpdateSilent(state) == [state |-> state, sent |-> 0, diags |-> <<>>]

OAuthTokenUpdate(state) ==
    [state |-> state, sent |-> 0,
     diags |-> AddError(<<>>, "Update Not Supported",
                        Text("The Zendesk API does not support updating OAuth tokens. To change the configuration, you must create a new token."))]

OAuthTokenParseError(err) ==
    AddError(<<>>, "Error Parsing OAuth Token ID",
             Text("Could not parse OAuth token ID: ") \o err)

OAuthTokenClientIDParseError(err) ==
    AddError(<<>>, "Error Parsing Client ID", Text("Could not parse client ID: ") \o err)

OAuthTokenResourceConfigure ==
    /\ ~crashed
    /\ resource = OAuthTokenTypeName
    /\ \E providerData \in ProviderDatas :
         LET out == ResourceConfigure(rclient, providerData)
         IN  /\ rclient' = out.client
             /\ call' = Local("Configure", Nil, out.diags)
    /\ UNCHANGED <<resource, remote, tracked, crashed, deleted, provider>>

OAuthTokenResourceCreate ==
    /\ ~crashed
    /\ resource = OAuthTokenTypeName
    /\ tracked = Absent
    /\ \E plan \in OAuthTokenPlans :
         LET clientID == ParseInt(ValueString(plan.ClientID))
         IN  IF ~clientID.ok
             THEN /\ call' = Local("Create", plan,
                        OAuthTokenClientIDParseError(
                            ParseErrorText(ValueString(plan.ClientID))))
                  /\ UNCHANGED <<resource, rclient, remote, tracked, crashed, deleted,
                                 provider>>
             ELSE IF IsNil(rclient) THEN Panic("Create", plan)
             ELSE \E d \in RoundTrip(remote,
                                     CreateOAuthTokenRequest(rclient, clientID.val,
                                         ScopeStrings(plan.Scopes),
                                         ValueString(plan.ExpiresAt))) :
                    LET res == CreateOAuthToken(d.x)
                        out == OAuthTokenCreate(plan, res)
                    IN  /\ remote' = d.store
                        /\ tracked' = out.state
                        /\ call' = Remote("Create", plan, d, res, out.diags)
                        /\ deleted' = deleted \ Assigned(remote, d.store)
                        /\ UNCHANGED <<resource, rclient, crashed, provider>>

OAuthTokenResourceRead ==
    /\ ~crashed
    /\ resource = OAuthTokenTypeName
    /\ tracked # Absent
    /\ LET id == ParseInt(ValueString(tracked.ID))
       IN  IF ~id.ok
           THEN /\ call' = Local("Read", Nil,
                      OAuthTokenParseError(ParseErrorText(ValueString(tracked.ID))))
                /\ UNCHANGED <<resource, rclient, remote, tracked, crashed, deleted,
                               provider>>
           ELSE IF IsNil(rclient) THEN Panic("Read", Nil)
           ELSE \E d \in RoundTrip(remote, ReadOAuthTokenRequest(rclient, id.val)) :
                  LET res == ReadOAuthToken(d.x)
                      out == OAuthTokenRead(tracked, res)
                  IN  /\ remote' = d.store
                      /\ tracked' = out.state
                      /\ call' = [Remote("Read", Nil, d, res, out.diags)
                                     EXCEPT !.again = ReadAgain, !.id = id.val]
                      /\ UNCHANGED <<resource, rclient, crashed, deleted, provider>>

OAuthTokenResourceUpdate ==
    /\ ~crashed
    /\ resource = OAuthTokenTypeName
    /\ \E plan \in OAuthTokenPlans :
         LET out == OAuthTokenUpdate(tracked)
         IN  /\ tracked' = out.state
             /\ call' = [Local("Update", plan, out.diags) EXCEPT !.sent = out.sent]
    /\ UNCHANGED <<resource, rclient, remote, crashed, deleted, provider>>

OAuthTokenResourceDelete ==
    /\ ~crashed
    /\ resource = OAuthTokenTypeName
    /\ tracked # Absent
    /\ LET id == ParseInt(ValueString(tracked.ID))
       IN  IF ~id.ok
           THEN /\ call' = Local("Delete", Nil,
                      OAuthTokenParseError(ParseErrorText(ValueString(tracked.ID))))
                /\ UNCHANGED <<resource, rclient, remote, tracked, crashed, deleted,
                               provider>>
           ELSE IF IsNil(rclient) THEN Panic("Delete", Nil)
           ELSE \E d \in RoundTrip(remote, DeleteOAuthTokenRequest(rclient, id.val)) :
                  LET res == DeleteOAuthToken(d.x)
                      out == OAuthTokenDelete(tracked, res)
                  IN  /\ remote' = d.store
                      /\ tracked' = out.state
                      /\ call' = [Remote("Delete", Nil, d, res, out.diags)
                                     EXCEPT !.id = id.val]
                      /\ deleted' = IF HasError(out.diags) THEN deleted
                                    ELSE deleted \cup {id.val}
                      /\ UNCHANGED <<resource, rclient, crashed, provider>>

OAuthTokenResourceImportState ==
    /\ ~crashed
    /\ resource = OAuthTokenTypeName
    /\ tracked = Absent
    /\ \E id \in ImportIDs :
         /\ tracked' = [absent |-> FALSE, ID |-> StringValue(id),
                        ClientID |-> StringNull, Scopes |-> ListNull,
                        FullToken |-> StringNull, ExpiresAt |-> StringNull]
         /\ call' = Local("ImportState", Nil, <<>>)
    /\ UNCHANGED <<resource, rclient, remote, crashed, deleted, provider>>

(***************************************************************************)
(* Someone else deletes a record on the remote system.                     *)
(***************************************************************************)
ExternalDelete ==
    /\ ~crashed
    /\ \E id \in Ids :
         /\ remote[id] # Gone
         /\ remote' = [remote EXCEPT ![id] = Gone]
    /\ call' = Local("ExternalDelete", Nil, <<>>)
    /\ UNCHANGED <<resource, rclient, tracked, crashed, deleted, provider>>

(***************************************************************************)
(* ZendeskProvider.Configure.                                              *)
(***************************************************************************)
AddAttributeError(diags, attribute, summary, detail) ==
    Append(diags, [severity |-> "error", path |-> attribute, summary |-> summary,
                   detail |-> Text(detail)])

\* The local variables subdomain, email and apiToken after the merge: the
\* environment variable, replaced by the configuration value when that is
\* not null.
\* MergeConfig letting a set environment variable win over the configuration.
MergeConfigEnvFirst(config, env) ==
    [subdomain |-> IF env.ZENDESK_SUBDOMAIN # <<>> THEN env.ZENDESK_SUBDOMAIN
                   ELSE ValueString(config.Subdomain),
     email |-> IF env.ZENDESK_EMAIL # <<>> THEN env.ZENDESK_EMAIL
               ELSE ValueString(config.Email),
     apiToken |-> IF env.ZENDESK_API_TOKEN # <<>> THEN env.ZENDESK_API_TOKEN
                  ELSE ValueString(config.APIToken)]

MergeConfig(config, env) ==
    [subdomain |-> IF ~IsNull(config.Subdomain) THEN ValueString(config.Subdomain)
                   ELSE env.ZENDESK_SUBDOMAIN,
     email |-> IF ~IsNull(config.Email) THEN ValueString(config.Email)
               ELSE env.ZENDESK_EMAIL,
     apiToken |-> IF ~IsNull(config.APIToken) THEN ValueString(config.APIToken)
                  ELSE env.ZENDESK_API_TOKEN]

UnknownDiagnostics(config) ==
    LET d1 == IF IsUnknown(config.Subdomain)
              THEN AddAttributeError(<<>>, "subdomain", "Unknown Zendesk subdomain",
                       "The provider cannot create the Zendesk API client as the subdomain is unknown.")
              ELSE <<>>
        d2 == IF IsUnknown(config.Email)
              THEN AddAttributeError(d1, "email", "Unknown Zendesk email",
                       "The provider cannot create the Zendesk API client as the email is unknown.")
              ELSE d1
    IN  IF IsUnknown(config.APIToken)
        THEN AddAttributeError(d2, "api_token", "Unknown Zendesk API token",
                 "The provider cannot create the Zendesk API client as the API token is unknown.")
        ELSE d2

MissingDiagnostics(m) ==
    LET d1 == IF m.subdomain = <<>>
              THEN AddAttributeError(<<>>, "subdomain", "Missing Zendesk subdomain",
                       "The provider cannot create the Zendesk API client as the subdomain is missing.")
              ELSE <<>>
        d2 == IF m.email = <<>>
              THEN AddAttributeError(d1, "email", "Missing Zendesk email",
                       "The provider cannot create the Zendesk API client as the email is missing.")
              ELSE d1
    IN  IF m.apiToken = <<>>
        THEN AddAttributeError(d2, "api_token", "Missing Zendesk API token",
                 "The provider cannot create the Zendesk API client as the API token is missing.")
        ELSE d2

NotMerged == [subdomain |-> <<>>, email |-> <<>>, apiToken |-> <<>>]

\* Configure: the response's diagnostics, ResourceData and DataSourceData,
\* and how far it got.  Past the last check nothing is done: the lines that
\* would build the client and set ResourceData are a comment.
ZendeskProviderConfigure(config, env) ==
    IF HasError(UnknownDiagnostics(config))
    THEN [diags |-> UnknownDiagnostics(config), merged |-> FALSE, m |-> NotMerged,
          ResourceData |-> Nil, DataSourceData |-> Nil]
    ELSE [diags |-> MissingDiagnostics(MergeConfig(config, env)),
          merged |-> TRUE, m |-> MergeConfig(config, env),
          ResourceData |-> Nil, DataSourceData |-> Nil]

ConfigStrings ==
    {StringNull, StringUnknown, StringValue(<<>>), StringValue(<<"from-config">>)}

EnvStrings == {<<>>, <<"from-env">>}

ProviderConfigs ==
    [Subdomain : ConfigStrings, Email : ConfigStrings, APIToken : ConfigStrings]

Environments ==
    [ZENDESK_SUBDOMAIN : EnvStrings, ZENDESK_EMAIL : EnvStrings,
     ZENDESK_API_TOKEN : EnvStrings]

NotConfigured ==
    [called |-> FALSE, config |-> Nil, env |-> Nil, diags |-> <<>>, merged |-> FALSE,
     m |-> NotMerged, ResourceData |-> Nil, DataSourceData |-> Nil]

ProviderConfigure ==
    /\ ~crashed
    /\ \E config \in ProviderConfigs, env \in Environments :
         LET out == ZendeskProviderConfigure(config, env)
         IN  provider' = [called |-> TRUE, config |-> config, env |-> env,
                          diags |-> out.diags, merged |-> out.merged, m |-> out.m,
                          ResourceData |-> out.ResourceData,
                          DataSourceData |-> out.DataSourceData]
    /\ call' = Local("ProviderConfigure", Nil, <<>>)
    /\ UNCHANGED <<resource, rclient, remote, tracked, crashed, deleted>>

\* The framework configures the resource with the ResourceData the
\* provider's Configure left in its response.
ConfigureResources ==
    /\ ~crashed
    /\ provider.called
    /\ LET out == ResourceConfigure(rclient, provider.ResourceData)
       IN  /\ rclient' = out.client
           /\ call' = Local("Configure", Nil, out.diags)
    /\ UNCHANGED <<resource, remote, tracked, crashed, deleted, provider>>

(***************************************************************************)
(* Specifications.                                                         *)
(***************************************************************************)
Init ==
    /\ resource \in {OAuthClientTypeName, OAuthTokenTypeName}
    /\ rclient = Nil
    /\ remote = [i \in Ids |-> Gone]
    /\ tracked = Absent
    /\ call = NoCall
    /\ crashed = FALSE
    /\ deleted = {}
    /\ provider = NotConfigured

\* One resource of either kind, configured with whatever the framework
\* hands it, through its life.
Next ==
    \/ OAuthClientResourceConfigure
    \/ OAuthClientResourceCreate
    \/ OAuthClientResourceRead
    \/ OAuthClientResourceUpdate
    \/ OAuthClientResourceDelete
    \/ OAuthClientResourceImportState
    \/ OAuthTokenResourceConfigure
    \/ OAuthTokenResourceCreate
    \/ OAuthTokenResourceRead
    \/ OAuthTokenResourceUpdate
    \/ OAuthTokenResourceDelete
    \/ OAuthTokenResourceImportState
    \/ ExternalDelete

Spec == Init /\ [][Next]_vars

\* The provider is configured, then its resources.
ProviderNext ==
    \/ ProviderConfigure
    \/ ConfigureResources

ProviderSpec == Init /\ [][ProviderNext]_vars

(***************************************************************************)
(* Properties.                                                             *)
(***************************************************************************)
\* The last call sent its request and the remote system answered it.
Answered == call.sent = 1 /\ IsNil(call.x.err)

IsRecord(res) == IsNil(res.err) /\ ~IsNil(res.rec)
IsNotFound(res) == IsNil(res.err) /\ IsNil(res.rec)
IsError(res) == ~IsNil(res.err)

\* C1: the status decides each API Client operation's outcome.  A create
\* returns a record only on 201, a read returns a record only on 200 and
\* not-found exactly on 404, a delete succeeds only on 204; every other
\* status (another 2xx, 404 on a create or a delete) is an error; not-found
\* is never an error and an error never not-found.
C1_StatusDecidesOutcome ==
    Answered =>
        /\ call.op = "Create" =>
             /\ IsRecord(call.res) => call.x.status = StatusCreated
             /\ call.x.status # StatusCreated => IsError(call.res)
             /\ ~IsNotFound(call.res)
        /\ call.op = "Read" =>
             /\ IsRecord(call.res) => call.x.status = StatusOK
             /\ IsNotFound(call.res) <=> call.x.status = StatusNotFound
             /\ call.x.status \notin {StatusOK, StatusNotFound} => IsError(call.res)
        /\ call.op = "Delete" =>
             /\ IsNil(call.res.err) => call.x.status = StatusNoContent
             /\ call.x.status # StatusNoContent => IsError(call.res)
             /\ call.x.status = StatusNoContent => IsNil(call.res.err)

\* A read of an OAuth client was answered 404 and returned not-found.
C1_Witness ==
    /\ resource = OAuthClientTypeName
    /\ call.op = "Read"
    /\ Answered
    /\ call.x.status = StatusNotFound
    /\ IsNotFound(call.res)

\* C2: a Read of either adapter that gets not-found from the API Client
\* removes the resource from the tracked state and adds no diagnostic.
C2_NotFoundRemovesResource ==
    (call.op = "Read" /\ call.sent = 1 /\ IsNotFound(call.res)) =>
        /\ tracked = Absent
        /\ call.diags = <<>>

\* A Read of an OAuth token got not-found and the token is no longer tracked.
C2_Witness ==
    /\ resource = OAuthTokenTypeName
    /\ call.op = "Read"
    /\ call.sent = 1
    /\ call.x.status = StatusNotFound
    /\ IsNotFound(call.res)
    /\ tracked = Absent

\* C3: an Update of either adapter, whatever the plan and the state, adds
\* the "Update Not Supported" error, sends no request, and changes neither
\* the tracked state nor the remote records.
C3_UpdateAlwaysRejected ==
    [][call'.op = "Update" =>
        /\ \E i \in 1..Len(call'.diags) :
             /\ call'.diags[i].severity = "error"
             /\ call'.diags[i].summary = "Update Not Supported"
        /\ call'.sent = 0
        /\ tracked' = tracked
        /\ remote' = remote
        /\ ~crashed']_vars

\* An Update was called on a tracked OAuth token whose adapter has a client
\* and whose record the remote system holds.
C3_Witness ==
    /\ resource = OAuthTokenTypeName
    /\ call.op = "Update"
    /\ tracked # Absent
    /\ ~IsNil(rclient)
    /\ \E i \in Ids : remote[i] # Gone

\* C4: once a Delete has removed id X (the remote system answered 204) and
\* no create has assigned X since, a Read of X that the remote system
\* answers returns not-found and the adapter removes X from the tracked
\* state; no Read of X returns a record, and the only other outcome is the
\* error of an exchange that itself failed.
C4_DeleteThenReadNotFound ==
    [][(call'.op = "Read" /\ call'.sent = 1 /\ call'.id \in deleted) =>
        /\ ~IsRecord(call'.res)
        /\ (IsNil(call'.x.err) /\ call'.x.status \in {StatusOK, StatusNotFound}) =>
             /\ IsNotFound(call'.res)
             /\ tracked' = Absent
        /\ IsError(call'.res) =>
             \/ ~IsNil(call'.x.err)
             \/ call'.x.status \notin {StatusOK, StatusNotFound}]_vars

\* An id that a Delete removed was read again: not-found, and it is no
\* longer tracked.
C4_Witness ==
    /\ call.op = "Read"
    /\ call.sent = 1
    /\ call.id \in deleted
    /\ IsNotFound(call.res)
    /\ tracked = Absent

\* The string member `key` of a response body ("" when the body omits it).
BodyString(body, key) == IF HasKey(body, key) THEN Member(body, key).str ELSE <<>>

\* C5: a create answered 201 with a record writes a state whose id is the
\* decimal string of the positive id the remote system assigned, and whose
\* description (client) or full_token and expires_at (token) are the
\* response's values, the empty string where the response omits one,
\* whatever the plan held.
C5_CreateEchoesServerFields ==
    (call.op = "Create" /\ call.sent = 1 /\ IsRecord(call.res)) =>
        /\ call.x.status = StatusCreated
        /\ tracked # Absent
        /\ LET id == Member(call.x.body, "id").num
           IN  /\ id > 0
               /\ remote[id] # Gone
               /\ tracked.ID = StringValue(FormatInt(id))
               /\ ParseInt(ValueString(tracked.ID)) = [ok |-> TRUE, val |-> id]
        /\ resource = OAuthClientTypeName =>
             tracked.Description = StringValue(BodyString(call.x.body, "description"))
        /\ resource = OAuthTokenTypeName =>
             /\ tracked.FullToken = StringValue(BodyString(call.x.body, "full_token"))
             /\ tracked.ExpiresAt = StringValue(BodyString(call.x.body, "expires_at"))

\* An OAuth client was created with a planned description and the remote
\* system answered with its own.
C5_Witness ==
    /\ resource = OAuthClientTypeName
    /\ call.op = "Create"
    /\ IsRecord(call.res)
    /\ ~IsNull(call.plan.Description)
    /\ tracked # Absent
    /\ tracked.Description = StringValue(ServerDescription)
    /\ tracked.Description # call.plan.Description

\* C6: a Create that fails (no response, a status other than 201, a body
\* that does not decode, or for a token a client_id that does not parse)
\* adds an error diagnostic and writes no state.
C6_FailedCreateWritesNoState ==
    (/\ call.op = "Create"
     /\ ~call.panic
     /\ \/ call.sent = 0
        \/ ~IsNil(call.x.err)
        \/ call.x.status # StatusCreated
        \/ ~IsJSON(call.x.body)) =>
        /\ HasError(call.diags)
        /\ tracked = Absent

\* A token Create was answered 201 with a body that does not decode.
C6_Witness ==
    /\ resource = OAuthTokenTypeName
    /\ call.op = "Create"
    /\ call.sent = 1
    /\ IsNil(call.x.err)
    /\ call.x.status = StatusCreated
    /\ ~IsJSON(call.x.body)
    /\ HasError(call.diags)
    /\ tracked = Absent

\* C7: a Read that follows a Read which returned no error, with nothing
\* done to the remote records in between, changes nothing in the tracked
\* state; and no Read changes the tracked full_token.
C7_ReadIdempotent ==
    [][call'.op = "Read" =>
        /\ call'.again => tracked' = tracked
        /\ (resource = OAuthTokenTypeName /\ tracked' # Absent) =>
             tracked'.FullToken = tracked.FullToken]_vars

\* A second Read of a token in a row found it, the response carrying
\* full_token, and the tracked full_token is not that value.
C7_Witness ==
    /\ resource = OAuthTokenTypeName
    /\ call.op = "Read"
    /\ call.again
    /\ IsRecord(call.res)
    /\ call.res.rec.FullToken = ServerFullToken
    /\ tracked # Absent
    /\ IsNull(tracked.FullToken)

\* Whether the text s contains the text sub, chunk for chunk.
Contains(s, sub) ==
    \E i \in 1..(Len(s) - Len(sub) + 1) : SubSeq(s, i, i + Len(sub) - 1) = sub

\* The status an operation takes for success.
SuccessStatus(op) ==
    CASE op = "Create" -> StatusCreated
      [] op = "Read" -> StatusOK
      [] op = "Delete" -> StatusNoContent

\* C8: when the status answered is neither the operation's success status
\* nor, for a read, 404, the error's message contains the response body
\* as it came, and so does the detail of the adapter's diagnostic.
C8_ErrorCarriesBody ==
    (/\ Answered
     /\ call.x.status # SuccessStatus(call.op)
     /\ ~(call.op = "Read" /\ call.x.status = StatusNotFound)) =>
        /\ IsError(call.res)
        /\ Contains(call.res.err.msg, call.x.body)
        /\ Len(call.diags) = 1
        /\ call.diags[1].severity = "error"
        /\ Contains(call.diags[1].detail, call.x.body)

\* A token read was answered 202 or 500 with a body of two chunks.
C8_Witness ==
    /\ resource = OAuthTokenTypeName
    /\ call.op = "Read"
    /\ Answered
    /\ call.x.status \in UnexpectedStatuses
    /\ Len(call.x.body) = 2
    /\ HasError(call.diags)

\* The attributes for which a Configure left an error diagnostic, in order.
DiagnosedPaths(diags) == [i \in 1..Len(diags) |-> diags[i].path]

\* The attributes among subdomain, email, api_token whose merged value is
\* empty, in that order.
MissingPaths(m) ==
    (IF m.subdomain = <<>> THEN <<"subdomain">> ELSE <<>>)
    \o (IF m.email = <<>> THEN <<"email">> ELSE <<>>)
    \o (IF m.apiToken = <<>> THEN <<"api_token">> ELSE <<>>)

\* C9: in the provider's Configure (no value unknown), subdomain, email and
\* API token are each the configuration value when that is not null and the
\* environment variable otherwise; every one that is empty after the merge
\* gets its own error diagnostic, all of them in the one response, and then
\* no client is set as ResourceData or DataSourceData.
C9_ConfigMergeAndMissing ==
    (/\ provider.called
     /\ ~IsUnknown(provider.config.Subdomain)
     /\ ~IsUnknown(provider.config.Email)
     /\ ~IsUnknown(provider.config.APIToken)) =>
        /\ provider.merged
        /\ provider.m.subdomain =
             IF IsNull(provider.config.Subdomain) THEN provider.env.ZENDESK_SUBDOMAIN
             ELSE provider.config.Subdomain.v
        /\ provider.m.email =
             IF IsNull(provider.config.Email) THEN provider.env.ZENDESK_EMAIL
             ELSE provider.config.Email.v
        /\ provider.m.apiToken =
             IF IsNull(provider.config.APIToken) THEN provider.env.ZENDESK_API_TOKEN
             ELSE provider.config.APIToken.v
        /\ DiagnosedPaths(provider.diags) = MissingPaths(provider.m)
        /\ \A i \in 1..Len(provider.diags) : provider.diags[i].severity = "error"
        /\ MissingPaths(provider.m) # <<>> =>
             /\ HasError(provider.diags)
             /\ IsNil(provider.ResourceData)
             /\ IsNil(provider.DataSourceData)

\* Configure ran with the subdomain taken from the environment (null in the
\* configuration), an empty configured email overriding the environment's,
\* and no API token anywhere: two diagnostics, no client.
C9_Witness ==
    /\ provider.called
    /\ IsNull(provider.config.Subdomain)
    /\ provider.m.subdomain = <<"from-env">>
    /\ provider.config.Email = StringValue(<<>>)
    /\ provider.env.ZENDESK_EMAIL = <<"from-env">>
    /\ provider.m.email = <<>>
    /\ provider.m.apiToken = <<>>
    /\ Len(provider.diags) = 2
    /\ IsNil(provider.ResourceData)

\* C10: when the provider's Configure ends with no error diagnostic, its
\* response carries a client built from the merged subdomain, email and API
\* token, and a resource configured after it holds that client.
C10_ClientHandedToResources ==
    (provider.called /\ ~HasError(provider.diags)) =>
        /\ provider.ResourceData =
             NewClient(provider.m.subdomain, provider.m.email, provider.m.apiToken)
        /\ call.op = "Configure" => rclient = provider.ResourceData

\* C11: no call of a resource's Configure, Create, Read, Update or Delete,
\* whatever it is given (a Configure with no provider data or with a value
\* of the wrong type included), crashes the process: every call returns.
C11_NoCallCrashes == ~crashed /\ ~call.panic

\* What a call came to, by the API Client's answer.
CreateSucceeded(c) == c.op = "Create" /\ c.sent = 1 /\ IsRecord(c.res)
DeleteSucceeded(c) == c.op = "Delete" /\ c.sent = 1 /\ IsNil(c.res.err)
ReadFound(c) == c.op = "Read" /\ c.sent = 1 /\ IsRecord(c.res)
ReadNotFound(c) == c.op = "Read" /\ c.sent = 1 /\ IsNotFound(c.res)

C13_UnparseableIdStopsLocally ==
    [][(\/ /\ call'.op \in {"Read", "Delete"}
           /\ tracked # Absent
           /\ ~ParseInt(ValueString(tracked.ID)).ok
        \/ /\ call'.op = "Create"
           /\ resource = OAuthTokenTypeName
           /\ ~ParseInt(ValueString(call'.plan.ClientID)).ok) =>
        /\ HasError(call'.diags)
        /\ call'.sent = 0
        /\ ~call'.panic
        /\ tracked' = tracked
        /\ remote' = remote]_vars

\* A Delete of an imported OAuth client whose id, 19 nines, is past the
\* largest int64, while the remote system holds a record: an error and no
\* request.
C13_Witness ==
    /\ resource = OAuthClientTypeName
    /\ call.op = "Delete"
    /\ tracked # Absent
    /\ Len(ValueString(tracked.ID)) = Len(MaxInt64Digits)
    /\ \A i \in 1..Len(ValueString(tracked.ID)) : IsDigit(ValueString(tracked.ID)[i])
    /\ HasError(call.diags)
    /\ call.sent = 0
    /\ \E i \in Ids : remote[i] # Gone

\* C14: a Read that failed for a reason other than not-found (a request
\* that could not be built, no response, a status other than 200 and 404,
\* a 200 whose body does not decode) and a Delete that failed (a request
\* that could not be built, no response, a status other than 204) add an
\* error diagnostic and leave the tracked state exactly as it was before
\* the call, every field of it, the resource still tracked.
C14_FailedReadOrDeleteKeepsState ==
    [][(/\ call'.op \in {"Read", "Delete"}
        /\ \/ ~IsNil(call'.x.err)
           \/ call'.sent = 1 /\ call'.x.status # SuccessStatus(call'.op)
                /\ ~(call'.op = "Read" /\ call'.x.status = StatusNotFound)
           \/ call'.sent = 1 /\ call'.op = "Read" /\ call'.x.status = StatusOK
                /\ ~IsJSON(call'.x.body)) =>
        /\ HasError(call'.diags)
        /\ tracked' = tracked
        /\ tracked' # Absent]_vars

\* A Read of a created token, full_token and all, was answered 200 with a
\* body that does not decode: an error, and the token is tracked as before.
C14_Witness ==
    /\ resource = OAuthTokenTypeName
    /\ call.op = "Read"
    /\ call.sent = 1
    /\ IsNil(call.x.err)
    /\ call.x.status = StatusOK
    /\ ~IsJSON(call.x.body)
    /\ HasError(call.diags)
    /\ tracked # Absent
    /\ tracked.FullToken = StringValue(ServerFullToken)

\* C15: a Read that finds the resource writes neither the id (client and
\* token) nor the token's full_token, whatever the response carries; and
\* nothing else does either while the resource stays tracked.  A token's
\* full_token is written when it comes to be tracked, the response's value
\* by a Create and null by an import, so a created token keeps its
\* creation value through every Read and an imported one never gets a
\* full_token from a Read.
C15_ReadKeepsIdAndFullToken ==
    [][/\ ReadFound(call') => (tracked # Absent /\ tracked' # Absent)
       /\ (tracked # Absent /\ tracked' # Absent) =>
            /\ tracked'.ID = tracked.ID
            /\ resource = OAuthTokenTypeName =>
                 tracked'.FullToken = tracked.FullToken
       /\ (resource = OAuthTokenTypeName /\ tracked = Absent /\ tracked' # Absent) =>
            IF call'.op = "ImportState" THEN IsNull(tracked'.FullToken)
            ELSE /\ CreateSucceeded(call')
                 /\ tracked'.FullToken =
                      StringValue(BodyString(call'.x.body, "full_token"))]_vars

\* A token was imported under the id "+1" and a Read found the record 1,
\* the response carrying full_token: the tracked id is still "+1" and the
\* tracked full_token still null.
C15_Witness ==
    /\ resource = OAuthTokenTypeName
    /\ ReadFound(call)
    /\ call.res.rec.ID = 1
    /\ call.res.rec.FullToken = ServerFullToken
    /\ tracked # Absent
    /\ tracked.ID = StringValue(<<"+", "1">>)
    /\ IsNull(tracked.FullToken)

\* A token was created and then read twice in a row, the second response
\* without full_token: the tracked full_token is still the creation value.
C15_CreatedWitness ==
    /\ resource = OAuthTokenTypeName
    /\ ReadFound(call)
    /\ call.again
    /\ call.res.rec.FullToken = <<>>
    /\ tracked # Absent
    /\ tracked.FullToken = StringValue(ServerFullToken)

\* Whether the call just made got as far as the API Client: its local id
\* parsed (the tracked id of a Read or Delete, a token Create's client_id).
ReachedClient ==
    IF call'.op = "Create"
    THEN resource = OAuthClientTypeName
         \/ ParseInt(ValueString(call'.plan.ClientID)).ok
    ELSE tracked # Absent /\ ParseInt(ValueString(tracked.ID)).ok

\* C16: an API Client operation sends its request exactly once, whatever
\* comes back (a response of any status, or no response), and never again:
\* a Create, Read or Delete whose request was built sent one request, one
\* whose request could not be built or that stopped before the API Client
\* sent none, no call sends more than one, and a Create leaves at most one
\* new record.  No call but a resource's Configure changes the adapter's
\* client, and Configure only takes the *Client it is handed, as it is.
C16_OneRequestNoRetry ==
    [][/\ call'.sent \in {0, 1}
       /\ call'.op \notin {"Create", "Read", "Delete"} =>
            /\ call'.sent = 0
            /\ call'.op # "ExternalDelete" => remote' = remote
       /\ (call'.op \in {"Create", "Read", "Delete"} /\ ~IsNil(rclient)
           /\ ReachedClient) =>
            /\ call'.sent = 1 <=> IsNil(URLError(rclient.subdomain \o <<".zendesk.com">>))
            /\ call'.sent = 0 => (HasError(call'.diags) /\ remote' = remote)
       /\ call'.op = "Create" => Cardinality(Assigned(remote, remote')) <= call'.sent
       /\ call'.op # "Configure" => rclient' = rclient
       /\ call'.op = "Configure" =>
            \/ rclient' = rclient
            \/ rclient' \in {p \in ProviderDatas : ~IsNil(p) /\ p.type = "*Client"}]_vars

\* A Create of an OAuth client got no response: one request was sent, the
\* error reported, and no record made.
C16_Witness ==
    /\ resource = OAuthClientTypeName
    /\ call.op = "Create"
    /\ call.sent = 1
    /\ call.x = NoResponse
    /\ HasError(call.diags)
    /\ rclient = TheClient
    /\ \A i \in Ids : remote[i] = Gone

\* C16 as first stated: every Create, Read or Delete that calls an
\* operation of the adapter's API Client sends exactly one request.
C16_ExactlyOneRequest ==
    [][(call'.op \in {"Create", "Read", "Delete"} /\ ~IsNil(rclient)
        /\ ReachedClient) =>
            call'.sent = 1]_vars

====
